---- MODULE Spec2Model ----
(***************************************************************************)
(* Model of StarProgrammer_LightCurve_GUI.py: the SerialManager transport  *)
(* (connect / disconnect / send_line / _poll_serial), the line framing and *)
(* classification it drives, and MainWindow's bounded sample window.       *)
(*                                                                         *)
(* Bytes and characters are integers (byte values, Unicode code points).   *)
(* Time is the monotonic clock in whole seconds.                           *)
(***************************************************************************)
EXTENDS Integers, Sequences, FiniteSets

\* ------------------------------------------------------------- bounds
MaxTicks == 1       \* Spec: the clock is observed to advance this many times
MaxWindowTicks == 2 \* SpecWindow: and this many times
MaxBuf == 1         \* Spec: reads are offered while they leave _buf within this length
MaxKept == 1        \* Spec: and leave at most this many samples and log lines
MaxSmall == 3       \* SpecWindow: up to this length a window is explored freely
MaxDialogs == 2     \* nested "Serial Error" dialogs open at once
MaxStream == 4      \* SpecFramer: total bytes received
MaxBody == 3        \* SpecClassifier: characters of a line after its label part
MaxRows == 1        \* SpecPlanets: the rows of the planet table that are edited

\* ---------------------------------------------------- program constants
WindowCap == 1000        \* deque(maxlen=1000)
LogCap == 500            \* log.setMaximumBlockCount(500)
InitWindowSeconds == 30  \* self.seconds_window = 30.0
SpinMin == 5             \* window_spin.setRange(5.0, 300.0): the least retention
TickStep == SpinMin      \* the clock advances by the least retention
NL == 10                 \* b"\n"
REPL == 65533            \* U+FFFD, what errors="replace" substitutes
MAX_PLANETS == 5         \* MAX_PLANETS = 5
NameCap == 11            \* name[:11]

None == "None"

\* ------------------------------------------------------ small helpers
Min(S) == CHOOSE x \in S : \A y \in S : x <= y
Max(S) == CHOOSE x \in S : \A y \in S : x >= y
Last(s) == s[Len(s)]
Drop(s, n) == SubSeq(s, n + 1, Len(s))

\* ---------------------------------------------------------- text model
\* str.isspace() for the code points a one- or two-byte UTF-8 sequence can give
IsSpace(c) == c \in {9, 10, 11, 12, 13, 28, 29, 30, 31, 32, 133, 160}
IsDigit(c) == c \in 48..57
IsCont(b) == b \in 128..191
IsLead2(b) == b \in 194..223

\* bytes.decode("utf-8", errors="replace") for bytes below 0xE0: ASCII maps to
\* itself, a well-formed two-byte sequence to its code point, every other byte
\* (stray continuation, lead byte without continuation, 0xC0/0xC1) to U+FFFD.
RECURSIVE decode(_)
decode(bs) ==
  IF bs = <<>> THEN <<>>
  ELSE LET b == Head(bs) IN
    IF b < 128 THEN <<b>> \o decode(Tail(bs))
    ELSE IF IsLead2(b) /\ Len(bs) >= 2 /\ IsCont(bs[2])
      THEN <<(b - 192) * 64 + (bs[2] - 128)>> \o decode(Drop(bs, 2))
      ELSE <<REPL>> \o decode(Tail(bs))

\* str.encode("utf-8") for code points below U+0800
RECURSIVE encode(_)
encode(cs) ==
  IF cs = <<>> THEN <<>>
  ELSE LET c == Head(cs) IN
    IF c < 128 THEN <<c>> \o encode(Tail(cs))
    ELSE <<192 + (c \div 64), 128 + (c % 64)>> \o encode(Tail(cs))

\* str.strip(): drop leading and trailing whitespace
strip(s) ==
  LET keep == {i \in 1..Len(s) : ~IsSpace(s[i])}
  IN IF keep = {} THEN <<>> ELSE SubSeq(s, Min(keep), Max(keep))

\* text.endswith("\n")
endswith_nl(text) == text # <<>> /\ Last(text) = NL

\* ------------------------------------------------------- LineClassifier
\* A parsed number: <<m, k>> stands for m * 10^-k, without trailing zeros in
\* the fraction, so that equal floats are equal values ("1.50" = "1.5").
RECURSIVE DigitsVal(_)
DigitsVal(ds) == IF ds = <<>> THEN 0 ELSE DigitsVal(SubSeq(ds, 1, Len(ds) - 1)) * 10 + (Last(ds) - 48)

RECURSIVE Normal(_, _)
Normal(m, k) == IF k > 0 /\ m % 10 = 0 THEN Normal(m \div 10, k - 1) ELSE <<m, k>>

\* float() of an optional sign, digits and at most one point; anything else in
\* the modelled character sets raises ValueError (they hold no exponent letter,
\* underscore, "inf" or "nan"). A value is a pair, ValueError the empty tuple.
ValueError == <<>>

PyFloat(text) ==
  LET signed == text # <<>> /\ Head(text) \in {43, 45}
      body == IF signed THEN Tail(text) ELSE text
      dots == {i \in 1..Len(body) : body[i] = 46}
      ok == /\ \A i \in 1..Len(body) : IsDigit(body[i]) \/ body[i] = 46
            /\ Cardinality(dots) <= 1
            /\ \E i \in 1..Len(body) : IsDigit(body[i])
      p == IF dots = {} THEN Len(body) + 1 ELSE Min(dots)
      whole == SubSeq(body, 1, p - 1)
      frac == Drop(body, p)
      v == Normal(DigitsVal(whole \o frac), Len(frac))
  IN IF ~ok THEN ValueError
     ELSE IF signed /\ Head(text) = 45 THEN <<0 - v[1], v[2]>> ELSE v

lower(c) == IF c \in 65..90 THEN c + 32 ELSE c

\* first index >= i of s that does not satisfy the character class (Len(s)+1 if none)
SkipSpace(s, i) == Min({j \in i..Len(s) : ~IsSpace(s[j])} \cup {Len(s) + 1})
SkipDigits(s, i) == Min({j \in i..Len(s) : ~IsDigit(s[j])} \cup {Len(s) + 1})

\* re.match(r"^Total\s*:\s*([0-9]+(?:\.[0-9]+)?)", line, re.IGNORECASE):
\* group(1) of the match, or NoMatch (group(1) of a match is never empty). The
\* pattern is anchored at the start only.
NoMatch == <<>>

TotalMatch(line) ==
  LET label == <<116, 111, 116, 97, 108>>
      hasLabel == Len(line) >= 5 /\ \A i \in 1..5 : lower(line[i]) = label[i]
      c == SkipSpace(line, 6)
      d == SkipSpace(line, c + 1)
      e == SkipDigits(line, d)
      f == SkipDigits(line, e + 1)
  IN IF ~hasLabel \/ c > Len(line) \/ line[c] # 58 \/ e = d THEN NoMatch
     ELSE IF e <= Len(line) /\ line[e] = 46 /\ f > e + 1 THEN SubSeq(line, d, f - 1)
     ELSE SubSeq(line, d, e - 1)

\* on_serial_line's decision: the value to append, or NoSample for a log line
NoSample == <<>>

SampleOf(line) ==
  IF TotalMatch(line) # NoMatch THEN PyFloat(TotalMatch(line))
  ELSE IF PyFloat(strip(line)) # ValueError THEN PyFloat(strip(line))
  ELSE NoSample

\* ---------------------------------------------------------- SampleWindow
\* The window state a line handler works on: w.x_times, w.y_vals, w.log.

\* deque(maxlen=cap).append(x)
deque_append(q, x, cap) == IF Len(q) >= cap THEN Tail(q) \o <<x>> ELSE Append(q, x)

\* Mutant: an "if" in place of the "while", at most one sample is trimmed
Trim_once(w, cutoff_time) ==
  IF w.x_times # <<>> /\ Head(w.x_times) < cutoff_time
    THEN [w EXCEPT !.x_times = Tail(@), !.y_vals = Tail(@)]
    ELSE w

\* Mutant: "<=" in place of "<", a sample at the cutoff is trimmed as well
Trim_inclusive(w, cutoff_time) ==
  LET n == Len(w.x_times)
      k == CHOOSE i \in 0..n : /\ \A j \in 1..i : w.x_times[j] <= cutoff_time
                               /\ i = n \/ w.x_times[i + 1] > cutoff_time
  IN [w EXCEPT !.x_times = Drop(@, k), !.y_vals = Drop(@, k)]

\* The trimming loop of append_data_point: it pops the head of both deques
\* while x_times[0] < cutoff_time, so it removes the longest prefix of x_times
\* that lies wholly below the cutoff; k is the number of iterations.
Trim(w, cutoff_time) ==
  LET n == Len(w.x_times)
      k == CHOOSE i \in 0..n : /\ \A j \in 1..i : w.x_times[j] < cutoff_time
                               /\ i = n \/ w.x_times[i + 1] >= cutoff_time
  IN [w EXCEPT !.x_times = Drop(@, k), !.y_vals = Drop(@, k)]

\* Mutant: y_vals is a deque without maxlen
append_data_point_uncapped_values(w, value, current_time, seconds_window) ==
  Trim([w EXCEPT !.x_times = deque_append(@, current_time, WindowCap),
                 !.y_vals = Append(@, value)],
       current_time - seconds_window)

append_data_point(w, value, current_time, seconds_window) ==
  Trim([w EXCEPT !.x_times = deque_append(@, current_time, WindowCap),
                 !.y_vals = deque_append(@, value, WindowCap)],
       current_time - seconds_window)

\* QPlainTextEdit.appendPlainText under setMaximumBlockCount
appendPlainText(w, line) == [w EXCEPT !.log = deque_append(@, line, LogCap)]

on_serial_line(w, line, current_time, seconds_window) ==
  IF SampleOf(line) # NoSample
    THEN append_data_point(w, SampleOf(line), current_time, seconds_window)
    ELSE appendPlainText(w, line)

\* ------------------------------------------------------------- ByteFramer
HasNL(b) == \E i \in 1..Len(b) : b[i] = NL

\* bytearray.partition(b"\n") at the first newline
partition(b) ==
  LET p == CHOOSE i \in 1..Len(b) : b[i] = NL /\ \A j \in 1..(i - 1) : b[j] # NL
  IN [line |-> SubSeq(b, 1, p - 1), rest |-> Drop(b, p)]

\* The while loop of _poll_serial on buffer b: the non-empty decoded lines it
\* emits, in order, and the bytes it leaves in the buffer.
RECURSIVE SplitLines(_)
SplitLines(b) ==
  IF ~HasNL(b) THEN [emitted |-> <<>>, rest |-> b]
  ELSE LET part == partition(b)
           decoded_line == strip(decode(part.line))
           more == SplitLines(part.rest)
       IN [emitted |-> (IF decoded_line # <<>> THEN <<decoded_line>> ELSE <<>>) \o more.emitted,
           rest |-> more.rest]

\* line_received is connected to on_serial_line: the slots run in emission order
RECURSIVE Dispatch(_, _, _, _)
Dispatch(w, lines, current_time, seconds_window) ==
  IF lines = <<>> THEN w
  ELSE Dispatch(on_serial_line(w, Head(lines), current_time, seconds_window),
                Tail(lines), current_time, seconds_window)

\* ---------------------------------------------------------- SerialManager
\* m is the manager's state: m.ser (the Serial object, here the name of the
\* port it has open, or None), m.buf (the bytearray), m.poll_timer (whether the
\* QTimer is active). Every operation returns the new state, the signals it
\* emitted in order (ev) and what it returned or raised (ret).

status_changed(connected) == [sig |-> "status_changed", connected |-> connected, text |-> <<>>]
line_received(line) == [sig |-> "line_received", connected |-> FALSE, text |-> line]
error_occurred == [sig |-> "error_occurred", connected |-> FALSE, text |-> <<>>]

\* is_connected(): a Serial object is held and open. pyserial leaves is_open
\* set until close(), and disconnect drops the object when it closes it.
is_connected(m) == m.ser # None

\* Mutant: the handle is dropped inside the try, so a raising close() keeps it
disconnect_keeps_handle(m, close_raises) ==
  [m |-> [m EXCEPT !.poll_timer = FALSE, !.ser = IF close_raises THEN @ ELSE None],
   ev |-> <<status_changed(FALSE)>>]

\* Mutant: the poll timer is left running when the link is dropped
disconnect_keeps_timer(m, close_raises) ==
  [m |-> [m EXCEPT !.ser = None], ev |-> <<status_changed(FALSE)>>]

\* disconnect(): close_raises is whether Serial.close() raises (it is logged)
disconnect(m, close_raises) ==
  [m |-> [m EXCEPT !.poll_timer = FALSE, !.ser = None],
   ev |-> <<status_changed(FALSE)>>]

\* Mutant: a failed open also clears the receive buffer
connect_clears_buffer(m, port_name, opens, close_raises) ==
  LET d == [m |-> [m EXCEPT !.poll_timer = FALSE, !.ser = None], ev |-> <<status_changed(FALSE)>>]
  IN IF opens
       THEN [m |-> [d.m EXCEPT !.ser = port_name, !.poll_timer = TRUE],
             ev |-> d.ev \o <<status_changed(TRUE)>>, ret |-> TRUE]
       ELSE [m |-> [d.m EXCEPT !.ser = None, !.buf = <<>>],
             ev |-> d.ev \o <<status_changed(FALSE)>>, ret |-> FALSE]

\* Mutant: the except branch does not drop the handle, a failed open keeps a
\* handle for port_name
connect_keeps_handle(m, port_name, opens, close_raises) ==
  LET d == [m |-> [m EXCEPT !.poll_timer = FALSE, !.ser = None], ev |-> <<status_changed(FALSE)>>]
  IN IF opens
       THEN [m |-> [d.m EXCEPT !.ser = port_name, !.poll_timer = TRUE],
             ev |-> d.ev \o <<status_changed(TRUE)>>, ret |-> TRUE]
       ELSE [m |-> [d.m EXCEPT !.ser = port_name],
             ev |-> d.ev \o <<status_changed(FALSE)>>, ret |-> FALSE]

\* Mutant: a successful open emits no status_changed(True)
connect_no_status(m, port_name, opens, close_raises) ==
  LET d == [m |-> [m EXCEPT !.poll_timer = FALSE, !.ser = None], ev |-> <<status_changed(FALSE)>>]
  IN IF opens
       THEN [m |-> [d.m EXCEPT !.ser = port_name, !.poll_timer = TRUE], ev |-> d.ev, ret |-> TRUE]
       ELSE [m |-> [d.m EXCEPT !.ser = None],
             ev |-> d.ev \o <<status_changed(FALSE)>>, ret |-> FALSE]

\* connect(port_name): opens is whether serial.Serial(...) succeeds
connect(m, port_name, opens, close_raises) ==
  LET d == disconnect(m, close_raises)
  IN IF opens
       THEN [m |-> [d.m EXCEPT !.ser = port_name, !.poll_timer = TRUE],
             ev |-> d.ev \o <<status_changed(TRUE)>>, ret |-> TRUE]
       ELSE [m |-> [d.m EXCEPT !.ser = None],
             ev |-> d.ev \o <<status_changed(FALSE)>>, ret |-> FALSE]

NotConnected == "RuntimeError: Serial not connected"
WriteFailed == "RuntimeError: Serial write failed"

\* Mutant: no is_connected() check, the write is attempted at once
send_line_unguarded(m, text, io) ==
  LET line == IF endswith_nl(text) THEN text ELSE text \o <<NL>>
  IN IF m.ser = None \/ io = "write" THEN [m |-> m, ret |-> WriteFailed, written |-> <<>>]
     ELSE IF io = "flush" THEN [m |-> m, ret |-> WriteFailed, written |-> encode(line)]
     ELSE [m |-> m, ret |-> "ok", written |-> encode(line)]

\* send_line(text): io is the outcome of the link's write and flush
\* ("ok", "write" raises, "flush" raises); a write through a _ser that is None
\* raises inside the try as well
send_line(m, text, io) ==
  LET line == IF endswith_nl(text) THEN text ELSE text \o <<NL>>
  IN IF ~is_connected(m) THEN [m |-> m, ret |-> NotConnected, written |-> <<>>]
     ELSE IF m.ser = None \/ io = "write" THEN [m |-> m, ret |-> WriteFailed, written |-> <<>>]
     ELSE IF io = "flush" THEN [m |-> m, ret |-> WriteFailed, written |-> encode(line)]
     ELSE [m |-> m, ret |-> "ok", written |-> encode(line)]

\* Mutant: an "if" in place of the "while", one line is split off per poll
extend_and_split_once(m, data) ==
  LET b == m.buf \o data
      decoded_line == strip(decode(partition(b).line))
  IN IF ~HasNL(b) THEN [m |-> [m EXCEPT !.buf = b], emitted |-> <<>>]
     ELSE [m |-> [m EXCEPT !.buf = partition(b).rest],
           emitted |-> IF decoded_line # <<>> THEN <<decoded_line>> ELSE <<>>]

\* Mutant: the buffer is rebuilt from the new data alone, what an earlier read
\* left is lost
extend_and_split_fresh(m, data) ==
  LET r == SplitLines(data)
  IN [m |-> [m EXCEPT !.buf = r.rest], emitted |-> r.emitted]

\* The part of _poll_serial that runs once the read has returned data
extend_and_split(m, data) ==
  LET r == SplitLines(m.buf \o data)
  IN [m |-> [m EXCEPT !.buf = r.rest], emitted |-> r.emitted]

RECURSIVE LineEvents(_)
LineEvents(lines) ==
  IF lines = <<>> THEN <<>> ELSE <<line_received(Head(lines))>> \o LineEvents(Tail(lines))

\* ------------------------------------------------------------ PlanetTable
\* Numbers are the pairs of PyFloat; the cell texts the model offers are ones
\* whose binary value truncates and compares as the decimal value does.
RECURSIVE Pow10(_)
Pow10(k) == IF k = 0 THEN 1 ELSE 10 * Pow10(k - 1)

Leq(a, b) == a[1] * Pow10(b[2]) <= b[1] * Pow10(a[2])

\* int(): truncation toward zero
TruncDiv(m, d) == IF m < 0 THEN 0 - ((0 - m) \div d) ELSE m \div d
int_of(v) == TruncDiv(v[1], Pow10(v[2]))
int_times_1000(v) == TruncDiv(v[1] * 1000, Pow10(v[2]))

\* str() of an int
RECURSIVE NatText(_)
NatText(n) == IF n < 10 THEN <<48 + n>> ELSE NatText(n \div 10) \o <<48 + (n % 10)>>
str_int(n) == IF n < 0 THEN <<45>> \o NatText(0 - n) ELSE NatText(n)

\* f"{v:.6f}" of a non-negative number
format_6f(v) ==
  LET scaled == IF v[2] <= 6 THEN v[1] * Pow10(6 - v[2])
                ELSE (v[1] + Pow10(v[2] - 6) \div 2) \div Pow10(v[2] - 6)
      frac == NatText(scaled % 1000000)
  IN NatText(scaled \div 1000000) \o <<46>> \o [i \in 1..(6 - Len(frac)) |-> 48] \o frac

\* One row of get_planet_rows: whether it is skipped, whether it raises
\* ValueError, and the tuple it appends otherwise
Named(row) == strip(row[1]) # <<>>

RowRaises(row) ==
  LET dip == PyFloat(strip(row[2]))
      orbit_s == PyFloat(strip(row[3]))
      transit_s == PyFloat(strip(row[4]))
      phase == PyFloat(strip(row[5]))
  IN \/ ValueError \in {dip, orbit_s, transit_s, phase}
     \/ ~(Leq(<<0, 0>>, dip) /\ Leq(dip, <<1, 0>>))
     \/ Leq(orbit_s, <<0, 0>>) \/ Leq(transit_s, <<0, 0>>)
     \/ Leq(orbit_s, transit_s)

RowTuple(row) ==
  LET name == strip(row[1])
  IN [name |-> SubSeq(name, 1, Min({NameCap, Len(name)})),
      dip |-> PyFloat(strip(row[2])),
      orbit_s |-> PyFloat(strip(row[3])),
      transit_s |-> PyFloat(strip(row[4])),
      phase_ms |-> int_of(PyFloat(strip(row[5])))]

RECURSIVE NamedRows(_)
NamedRows(t) ==
  IF t = <<>> THEN <<>>
  ELSE (IF Named(Head(t)) THEN <<Head(t)>> ELSE <<>>) \o NamedRows(Tail(t))

\* get_planet_rows(): it raises at the first named row that fails
get_planet_rows(t) ==
  LET named == NamedRows(t)
  IN IF \E i \in 1..Len(named) : RowRaises(named[i])
       THEN [raised |-> TRUE, rows |-> <<>>]
       ELSE [raised |-> FALSE, rows |-> [i \in 1..Len(named) |-> RowTuple(named[i])]]

\* The command line of one planet
planet_command(p) ==
  p.name \o <<44>> \o format_6f(p.dip) \o <<44>> \o str_int(int_times_1000(p.orbit_s))
    \o <<44>> \o str_int(int_times_1000(p.transit_s)) \o <<44>> \o str_int(p.phase_ms)

SETNUM == <<83, 69, 84, 78, 85, 77, 58>>

\* The bytes send_line writes for each of cmds in turn, the fail_at-th call
\* raising as io says (fail_at = 0: none raises)
RECURSIVE SendAll(_, _, _, _, _)
SendAll(m, cmds, i, fail_at, io) ==
  IF i > Len(cmds) THEN <<>>
  ELSE IF i = fail_at THEN send_line(m, cmds[i], io).written
  ELSE send_line(m, cmds[i], "ok").written \o SendAll(m, cmds, i + 1, fail_at, io)

\* send_planets(): what it ends with and the bytes it wrote
send_planets(m, t, fail_at, io) ==
  LET got == get_planet_rows(t)
      count == Min({Len(got.rows), MAX_PLANETS})
      cmds == <<SETNUM \o str_int(count)>> \o [i \in 1..count |-> planet_command(got.rows[i])]
  IN IF ~is_connected(m) THEN [ret |-> "Not Connected", written |-> <<>>]
     ELSE IF got.raised THEN [ret |-> "Input Error", written |-> <<>>]
     ELSE IF got.rows = <<>> THEN [ret |-> "No Planets", written |-> <<>>]
     ELSE [ret |-> IF fail_at = 0 THEN "Success" ELSE "Send Error",
           written |-> SendAll(m, cmds, 1, fail_at, io)]

\* ------------------------------------------------------------------ state
VARIABLES
  _ser,            \* SerialManager._ser: None or the open port
  _buf,            \* SerialManager._buf
  poll_timer,      \* SerialManager.poll_timer.isActive()
  x_times,         \* MainWindow.x_times
  y_vals,          \* MainWindow.y_vals
  log,             \* the lines of MainWindow.log
  t0,              \* MainWindow.t0
  seconds_window,  \* MainWindow.seconds_window
  port_combo,      \* the items of MainWindow.port_combo
  now,             \* time.monotonic()
  dialogs,         \* open "Serial Error" dialogs, each inside a _poll_serial
  op,              \* the operation that ran last: name, what it returned, what raised
  events,          \* the signals that operation emitted, in order
  rx,              \* history: every byte read so far (kept by SpecFramer)
  lines,           \* history: every line emitted so far (kept by SpecFramer)
  table,           \* the cell texts of MainWindow.table, row by row
  connect_btn      \* the text of MainWindow.connect_btn

vars == <<_ser, _buf, poll_timer, x_times, y_vals, log, t0, seconds_window,
          port_combo, now, dialogs, op, events, rx, lines, table, connect_btn>>

Mgr == [ser |-> _ser, buf |-> _buf, poll_timer |-> poll_timer]
Win == [x_times |-> x_times, y_vals |-> y_vals, log |-> log]

SetMgr(m) == _ser' = m.ser /\ _buf' = m.buf /\ poll_timer' = m.poll_timer
SetWin(w) == x_times' = w.x_times /\ y_vals' = w.y_vals /\ log' = w.log

\* The record of an operation: its name, what it returned or raised (ret), the
\* link calls that raised in it, the bytes it wrote, the bytes it read, and
\* whether is_connected() held when it began (pre).
Op(name, ret, raised, written, read) ==
  [name |-> name, ret |-> ret, raised |-> raised, written |-> written, read |-> read,
   pre |-> is_connected(Mgr)]

\* --------------------------------------------------------------- inputs
\* Read chunks, as bytes: "1", "1\n", "x\n"
Chunks == {<<49>>, <<49, NL>>, <<120, NL>>}
\* Commands, as text: "SAVE", "LIST\n"
Commands == {<<83, 65, 86, 69>>, <<76, 73, 83, 84, NL>>}
HELP == <<72, 69, 76, 80>>
\* What the spin box can be set to, besides its initial value
WindowChoices == {SpinMin, InitWindowSeconds}
\* Port names the operating system may report
PortUniverse == {"/dev/ttyACM0", "/dev/ttyUSB0"}
Comports == {{}, PortUniverse}
NoPorts == "(no ports found)"

\* port_priority of list_serial_ports, on the names of PortUniverse
port_priority(port_name) ==
  CASE port_name \in {"/dev/ttyACM0", "/dev/ttyUSB0"} -> 0
    [] OTHER -> 2

\* Python's string order on the names of PortUniverse
NameOrder == <<"/dev/ttyACM0", "/dev/ttyUSB0">>
NameRank(port_name) == CHOOSE i \in 1..Len(NameOrder) : NameOrder[i] = port_name

\* list_serial_ports(): the names sorted by (port_priority, name)
list_serial_ports(comports) ==
  LET before(a, b) == \/ port_priority(a) < port_priority(b)
                      \/ port_priority(a) = port_priority(b) /\ NameRank(a) < NameRank(b)
      place(a) == 1 + Cardinality({b \in comports : before(b, a)})
  IN [i \in 1..Cardinality(comports) |-> CHOOSE a \in comports : place(a) = i]

\* refresh_ports(): the combo box items it leaves
refresh_ports(comports) ==
  IF list_serial_ports(comports) = <<>> THEN <<NoPorts>> ELSE list_serial_ports(comports)

Items(q) == {q[i] : i \in 1..Len(q)}

\* PlanetTable.__init__: an empty name, "0.1", "10.0", "2.0", "0"
DefaultRow == <<<<>>, <<48, 46, 49>>, <<49, 48, 46, 48>>, <<50, 46, 48>>, <<48>>>>

\* on_status_changed, run for every status_changed among the signals evs in
\* order: the button text it leaves
RECURSIVE on_status_changed(_, _)
on_status_changed(btn, evs) ==
  IF evs = <<>> THEN btn
  ELSE on_status_changed(
         IF Head(evs).sig # "status_changed" THEN btn
         ELSE IF Head(evs).connected THEN "Disconnect" ELSE "Connect",
         Tail(evs))

\* ----------------------------------------------------------------- Init
\* MainWindow.__init__: a fresh SerialManager, an empty window whose epoch is
\* the construction time, and the port list of refresh_ports(auto_select=True).
Init ==
  /\ _ser = None
  /\ _buf = <<>>
  /\ poll_timer = FALSE
  /\ x_times = <<>>
  /\ y_vals = <<>>
  /\ log = <<>>
  /\ now = 0
  /\ t0 = now
  /\ seconds_window = InitWindowSeconds
  /\ port_combo \in {refresh_ports(c) : c \in Comports}
  /\ dialogs = 0
  /\ op = [name |-> "__init__", ret |-> "ok", raised |-> {}, written |-> <<>>, read |-> <<>>,
           pre |-> FALSE]
  /\ events = <<>>
  /\ rx = <<>>
  /\ lines = <<>>
  /\ table = [r \in 1..MAX_PLANETS |-> DefaultRow]
  /\ connect_btn = "Connect"

\* The "Serial Error" box is modal: while one is open the window's own handlers
\* cannot run; only timers fire.
Interactive == dialogs = 0

\* --------------------------------------------------------------- actions
\* SerialManager.connect(port_name), called in any state
Connect(port_name, opens, close_raises) ==
  /\ Interactive
  /\ close_raises => is_connected(Mgr)
  /\ LET r == connect(Mgr, port_name, opens, close_raises)
     IN /\ SetMgr(r.m)
        /\ events' = r.ev
        /\ op' = Op("connect", IF r.ret THEN "True" ELSE "False",
                    (IF close_raises THEN {"close"} ELSE {}) \cup (IF opens THEN {} ELSE {"open"}),
                    <<>>, <<>>)
  /\ UNCHANGED <<x_times, y_vals, log, t0, seconds_window, port_combo, now, dialogs, rx, lines, table>>
  /\ connect_btn' = on_status_changed(connect_btn, events')

\* SerialManager.disconnect(), called in any state (closeEvent calls it so)
Disconnect(close_raises) ==
  /\ Interactive
  /\ close_raises => is_connected(Mgr)
  /\ LET r == disconnect(Mgr, close_raises)
     IN /\ SetMgr(r.m)
        /\ events' = r.ev
        /\ op' = Op("disconnect", "ok", IF close_raises THEN {"close"} ELSE {}, <<>>, <<>>)
  /\ UNCHANGED <<x_times, y_vals, log, t0, seconds_window, port_combo, now, dialogs, rx, lines, table>>
  /\ connect_btn' = on_status_changed(connect_btn, events')

\* SerialManager.send_line(text), called in any state
SendLine(text, io) ==
  /\ Interactive
  /\ io # "ok" => is_connected(Mgr)
  /\ LET r == send_line(Mgr, text, io)
     IN /\ SetMgr(r.m)
        /\ events' = <<>>
        /\ op' = Op("send_line", r.ret, IF io = "ok" THEN {} ELSE {io}, r.written, <<>>)
  /\ UNCHANGED <<x_times, y_vals, log, t0, seconds_window, port_combo, now, dialogs, rx, lines, table>>
  /\ connect_btn' = on_status_changed(connect_btn, events')

\* _poll_serial() when is_connected() is false: it returns at once
PollIdle ==
  /\ ~is_connected(Mgr)
  /\ events' = <<>>
  /\ op' = Op("_poll_serial", "return", {}, <<>>, <<>>)
  /\ UNCHANGED <<_ser, _buf, poll_timer, x_times, y_vals, log, t0, seconds_window,
                 port_combo, now, dialogs, rx, lines, table>>
  /\ connect_btn' = on_status_changed(connect_btn, events')

\* Mutant: a read of zero bytes is taken for the end of the link and the
\* transport is disconnected
PollData_eof_disconnects(data) ==
  /\ is_connected(Mgr)
  /\ LET r == IF data = <<>> THEN [m |-> disconnect(Mgr, FALSE).m, emitted |-> <<>>]
              ELSE extend_and_split(Mgr, data)
     IN /\ SetMgr(r.m)
        /\ SetWin(Dispatch(Win, r.emitted, now - t0, seconds_window))
        /\ events' = IF data = <<>> THEN disconnect(Mgr, FALSE).ev ELSE LineEvents(r.emitted)
        /\ op' = Op("_poll_serial", "return", {}, <<>>, data)
  /\ UNCHANGED <<t0, seconds_window, port_combo, now, dialogs>>
  /\ connect_btn' = on_status_changed(connect_btn, events')

\* _poll_serial() whose read returns data (possibly none): the lines it emits
\* reach on_serial_line before it returns
PollData(data) ==
  /\ is_connected(Mgr)
  /\ LET r == IF data = <<>> THEN [m |-> Mgr, emitted |-> <<>>] ELSE extend_and_split(Mgr, data)
     IN /\ SetMgr(r.m)
        /\ SetWin(Dispatch(Win, r.emitted, now - t0, seconds_window))
        /\ events' = LineEvents(r.emitted)
        /\ op' = Op("_poll_serial", "return", {}, <<>>, data)
  /\ UNCHANGED <<t0, seconds_window, port_combo, now, dialogs, connect_btn>>

PollRead(data) == PollData(data) /\ UNCHANGED <<rx, lines, table>>

\* _poll_serial() whose read raises: error_occurred is emitted and its slot,
\* on_serial_error, opens a modal box; _poll_serial is suspended inside it
PollError ==
  /\ is_connected(Mgr)
  /\ dialogs < MaxDialogs
  /\ dialogs' = dialogs + 1
  /\ events' = <<error_occurred>>
  /\ op' = Op("_poll_serial", "in_error_dialog", {"read"}, <<>>, <<>>)
  /\ UNCHANGED <<_ser, _buf, poll_timer, x_times, y_vals, log, t0, seconds_window,
                 port_combo, now, rx, lines, table>>
  /\ connect_btn' = on_status_changed(connect_btn, events')

\* Mutant: the except branch ends without self.disconnect()
PollErrorReturn_no_disconnect(close_raises) ==
  /\ dialogs > 0
  /\ ~close_raises
  /\ dialogs' = dialogs - 1
  /\ events' = <<>>
  /\ op' = Op("_poll_serial", "return_after_error", {}, <<>>, <<>>)
  /\ UNCHANGED <<_ser, _buf, poll_timer, x_times, y_vals, log, t0, seconds_window,
                 port_combo, now, rx, lines, table>>
  /\ connect_btn' = on_status_changed(connect_btn, events')

\* The innermost "Serial Error" box is dismissed: its _poll_serial resumes with
\* self.disconnect() and returns
PollErrorReturn(close_raises) ==
  /\ dialogs > 0
  /\ close_raises => is_connected(Mgr)
  /\ dialogs' = dialogs - 1
  /\ LET r == disconnect(Mgr, close_raises)
     IN /\ SetMgr(r.m)
        /\ events' = r.ev
        /\ op' = Op("_poll_serial", "return_after_error",
                    IF close_raises THEN {"close"} ELSE {}, <<>>, <<>>)
  /\ UNCHANGED <<x_times, y_vals, log, t0, seconds_window, port_combo, now, rx, lines, table>>
  /\ connect_btn' = on_status_changed(connect_btn, events')

\* Mutant: a successful connect sets the new epoch but leaves the deques alone
ToggleConnect_keeps_window(port, opens, close_raises, io) ==
  /\ Interactive
  /\ port \in Items(port_combo)
  /\ ~close_raises /\ io = "ok"
  /\ (is_connected(Mgr) \/ port = NoPorts) => opens
  /\ IF is_connected(Mgr)
       THEN /\ SetMgr(disconnect(Mgr, close_raises).m)
            /\ events' = disconnect(Mgr, close_raises).ev
            /\ op' = Op("toggle_connect", "disconnected", {}, <<>>, <<>>)
            /\ UNCHANGED <<x_times, y_vals, log, t0>>
     ELSE IF port = NoPorts
       THEN /\ events' = <<>>
            /\ op' = Op("toggle_connect", "no_port", {}, <<>>, <<>>)
            /\ UNCHANGED <<_ser, _buf, poll_timer, x_times, y_vals, log, t0>>
     ELSE LET r == connect(Mgr, port, opens, FALSE)
          IN /\ SetMgr(r.m)
             /\ events' = r.ev
             /\ t0' = IF r.ret THEN now ELSE t0
             /\ op' = Op("toggle_connect", IF r.ret THEN "connected" ELSE "connect_failed",
                         IF r.ret THEN {} ELSE {"open"}, <<>>, <<>>)
             /\ UNCHANGED <<x_times, y_vals, log>>
  /\ UNCHANGED <<seconds_window, port_combo, now, dialogs, rx, lines, table>>
  /\ connect_btn' = on_status_changed(connect_btn, events')

\* MainWindow.toggle_connect() with the combo box showing port
ToggleConnect(port, opens, close_raises, io) ==
  /\ Interactive
  /\ port \in Items(port_combo)
  /\ close_raises => is_connected(Mgr)
  /\ (~opens \/ is_connected(Mgr) \/ port = NoPorts) => io = "ok"
  /\ (is_connected(Mgr) \/ port = NoPorts) => opens
  /\ IF is_connected(Mgr)
       THEN LET r == disconnect(Mgr, close_raises)
            IN /\ SetMgr(r.m)
               /\ events' = r.ev
               /\ op' = Op("toggle_connect", "disconnected", IF close_raises THEN {"close"} ELSE {}, <<>>, <<>>)
               /\ UNCHANGED <<x_times, y_vals, log, t0>>
     ELSE IF port = NoPorts
       THEN /\ events' = <<>>
            /\ op' = Op("toggle_connect", "no_port", {}, <<>>, <<>>)
            /\ UNCHANGED <<_ser, _buf, poll_timer, x_times, y_vals, log, t0>>
     ELSE LET r == connect(Mgr, port, opens, FALSE)
              h == send_line(r.m, HELP, io)
          IN /\ SetMgr(r.m)
             /\ events' = r.ev
             /\ IF r.ret
                  THEN /\ t0' = now
                       /\ x_times' = <<>>
                       /\ y_vals' = <<>>
                       /\ log' = <<>>
                       /\ op' = Op("toggle_connect", "connected",
                                   IF io = "ok" THEN {} ELSE {io}, h.written, <<>>)
                  ELSE /\ op' = Op("toggle_connect", "connect_failed", {"open"}, <<>>, <<>>)
                       /\ UNCHANGED <<x_times, y_vals, log, t0>>
  /\ UNCHANGED <<seconds_window, port_combo, now, dialogs, rx, lines, table>>
  /\ connect_btn' = on_status_changed(connect_btn, events')

\* Mutant: the new retention is applied to the window at once
SetWindowSeconds_trims(seconds) ==
  /\ Interactive
  /\ seconds # seconds_window
  /\ seconds_window' = seconds
  /\ SetWin(IF x_times = <<>> THEN Win ELSE Trim(Win, Last(x_times) - seconds))
  /\ events' = <<>>
  /\ op' = Op("set_window_seconds", "ok", {}, <<>>, <<>>)
  /\ UNCHANGED <<_ser, _buf, poll_timer, t0, port_combo, now, dialogs, rx, lines, table>>
  /\ connect_btn' = on_status_changed(connect_btn, events')

\* MainWindow.set_window_seconds(seconds), from the spin box's valueChanged
SetWindowSeconds(seconds) ==
  /\ Interactive
  /\ seconds # seconds_window
  /\ seconds_window' = seconds
  /\ events' = <<>>
  /\ op' = Op("set_window_seconds", "ok", {}, <<>>, <<>>)
  /\ UNCHANGED <<_ser, _buf, poll_timer, x_times, y_vals, log, t0, port_combo, now,
                 dialogs, rx, lines, table>>
  /\ connect_btn' = on_status_changed(connect_btn, events')

\* MainWindow.refresh_ports() when the system reports comports
RefreshPorts(comports) ==
  /\ Interactive
  /\ port_combo' = refresh_ports(comports)
  /\ events' = <<>>
  /\ op' = Op("refresh_ports", "ok", {}, <<>>, <<>>)
  /\ UNCHANGED <<_ser, _buf, poll_timer, x_times, y_vals, log, t0, seconds_window, now,
                 dialogs, rx, lines, table>>
  /\ connect_btn' = on_status_changed(connect_btn, events')

\* The user edits one cell of the planet table
EditCell(r, c, text) ==
  /\ Interactive
  /\ table[r][c] # text
  /\ table' = [table EXCEPT ![r][c] = text]
  /\ UNCHANGED connect_btn
  /\ events' = <<>>
  /\ op' = Op("table.setItem", "ok", {}, <<>>, <<>>)
  /\ UNCHANGED <<_ser, _buf, poll_timer, x_times, y_vals, log, t0, seconds_window,
                 port_combo, now, dialogs, rx, lines>>

\* MainWindow.send_planets(), from the "Send Planets" button
SendPlanets(fail_at, io) ==
  /\ Interactive
  /\ fail_at = 0 <=> io = "ok"
  /\ fail_at > 0 =>
       /\ is_connected(Mgr)
       /\ ~get_planet_rows(table).raised
       /\ get_planet_rows(table).rows # <<>>
       /\ fail_at <= 1 + Len(get_planet_rows(table).rows)
  /\ LET r == send_planets(Mgr, table, fail_at, io)
     IN /\ events' = <<>>
        /\ op' = Op("send_planets", r.ret, IF io = "ok" THEN {} ELSE {io}, r.written, <<>>)
  /\ UNCHANGED <<_ser, _buf, poll_timer, x_times, y_vals, log, t0, seconds_window,
                 port_combo, now, dialogs, rx, lines, table>>
  /\ connect_btn' = on_status_changed(connect_btn, events')

\* time.monotonic() advances
Tick(ticks) ==
  /\ now < ticks * TickStep
  /\ now' = now + TickStep
  /\ UNCHANGED <<_ser, _buf, poll_timer, x_times, y_vals, log, t0, seconds_window,
                 port_combo, dialogs, op, events, rx, lines, table, connect_btn>>

\* Reads are offered while they keep the model within its bounds
Room(data) ==
  LET r == SplitLines(_buf \o data)
      w == Dispatch(Win, r.emitted, now - t0, seconds_window)
  IN /\ Len(r.rest) <= MaxBuf
     /\ Len(w.x_times) + Len(w.log) <= MaxKept

Next ==
  \/ \E port_name \in PortUniverse, opens \in BOOLEAN, close_raises \in BOOLEAN :
       Connect(port_name, opens, close_raises)
  \/ \E close_raises \in BOOLEAN : Disconnect(close_raises)
  \/ \E text \in Commands, io \in {"ok", "write", "flush"} : SendLine(text, io)
  \/ PollIdle
  \/ \E data \in Chunks \cup {<<>>} : Room(data) /\ PollRead(data)
  \/ PollError
  \/ \E close_raises \in BOOLEAN : PollErrorReturn(close_raises)
  \/ \E port \in PortUniverse \cup {NoPorts}, opens \in BOOLEAN, close_raises \in BOOLEAN,
        io \in {"ok", "write", "flush"} : ToggleConnect(port, opens, close_raises, io)
  \/ \E seconds \in WindowChoices : SetWindowSeconds(seconds)
  \/ \E comports \in Comports : RefreshPorts(comports)
  \/ Tick(MaxTicks)

Spec == Init /\ [][Next]_vars

\* --------------------------------------------------------- SpecTransport
\* The SerialManager: its methods called in any order, directly or by the
\* connect button, its poll fired at any time, with its signals wired to the
\* window's slots. The clock stands still and the retention is left alone.
NextTransport ==
  \/ \E port_name \in PortUniverse, opens \in BOOLEAN, close_raises \in BOOLEAN :
       Connect(port_name, opens, close_raises)
  \/ \E close_raises \in BOOLEAN : Disconnect(close_raises)
  \/ \E text \in Commands, io \in {"ok", "write", "flush"} : SendLine(text, io)
  \/ PollIdle
  \/ \E data \in Chunks \cup {<<>>} : Room(data) /\ PollRead(data)
  \/ PollError
  \/ \E close_raises \in BOOLEAN : PollErrorReturn(close_raises)
  \/ \E port \in PortUniverse \cup {NoPorts}, opens \in BOOLEAN, close_raises \in BOOLEAN,
        io \in {"ok", "write", "flush"} : ToggleConnect(port, opens, close_raises, io)
  \/ \E comports \in Comports : RefreshPorts(comports)

SpecTransport == Init /\ [][NextTransport]_vars

\* --------------------------------------------------------------- SpecApp
\* The program as its window drives it: the connection is opened and closed by
\* toggle_connect alone, and the send handlers return early unless
\* _check_connection() finds the transport connected.
NextApp ==
  \/ \E port \in PortUniverse \cup {NoPorts}, opens \in BOOLEAN, close_raises \in BOOLEAN,
        io \in {"ok", "write", "flush"} : ToggleConnect(port, opens, close_raises, io)
  \/ \E text \in Commands, io \in {"ok", "write", "flush"} :
       is_connected(Mgr) /\ SendLine(text, io)
  \/ PollIdle
  \/ \E data \in Chunks \cup {<<>>} : Room(data) /\ PollRead(data)
  \/ PollError
  \/ \E close_raises \in BOOLEAN : PollErrorReturn(close_raises)
  \/ \E seconds \in WindowChoices : SetWindowSeconds(seconds)
  \/ \E comports \in Comports : RefreshPorts(comports)
  \/ Tick(MaxTicks)

SpecApp == Init /\ [][NextApp]_vars

\* ------------------------------------------------------------ SpecFramer
\* One connection receiving an arbitrary byte stream in arbitrary reads, with
\* the history of what was read and what was emitted.
FramerBytes == {NL, 32, 49, 195, 169}   \* "\n", " ", "1", and the two bytes of U+00E9

RECURSIVE SeqsUpTo(_, _)
SeqsUpTo(S, n) ==
  IF n = 0 THEN {<<>>}
  ELSE LET shorter == SeqsUpTo(S, n - 1)
       IN shorter \cup {Append(q, x) : q \in {r \in shorter : Len(r) = n - 1}, x \in S}

PollReadH(data) ==
  /\ PollData(data)
  /\ rx' = rx \o data
  /\ lines' = lines \o [i \in 1..Len(events') |-> events'[i].text]
  /\ UNCHANGED table

NextFramer ==
  \/ \E port_name \in PortUniverse, opens \in BOOLEAN :
       ~is_connected(Mgr) /\ Connect(port_name, opens, FALSE)
  \/ \E data \in SeqsUpTo(FramerBytes, MaxStream - Len(rx)) : PollReadH(data)

SpecFramer == Init /\ [][NextFramer]_vars

\* ------------------------------------------------------------ SpecWindow
\* The window up to its count cap. A window longer than MaxSmall is explored
\* along one corridor only: a fast fill by reads of "1\n" within the first
\* clock value under the initial retention, in which nothing else happens until
\* the window is one short of the cap. A window that long is read once per clock
\* value.
WindowChunks == {<<49, NL>>, <<50, NL>>}   \* "1\n", "2\n"

Settled == Len(x_times) <= MaxSmall \/ Len(x_times) >= WindowCap - 1

Corridor(data) ==
  /\ Len(x_times) >= MaxSmall
  /\ Len(x_times) < WindowCap - 1
  /\ data = <<49, NL>>
  /\ now = 0
  /\ Head(x_times) = now - t0
  /\ seconds_window = InitWindowSeconds
  /\ \A i \in 1..Len(y_vals) : y_vals[i] = SampleOf(<<49>>)

RoomWindow(data) ==
  \/ Len(x_times) < MaxSmall
  \/ Corridor(data)
  \/ Len(x_times) >= WindowCap - 1 /\ Last(x_times) < now - t0

NextWindow ==
  \/ \E port \in PortUniverse \cup {NoPorts}, opens \in BOOLEAN, close_raises \in BOOLEAN,
        io \in {"ok", "write", "flush"} :
       Settled /\ ToggleConnect(port, opens, close_raises, io)
  \/ \E data \in WindowChunks : RoomWindow(data) /\ PollRead(data)
  \/ \E seconds \in WindowChoices : Settled /\ SetWindowSeconds(seconds)
  \/ Settled /\ Tick(MaxWindowTicks)

SpecWindow == Init /\ [][NextWindow]_vars

\* -------------------------------------------------------- SpecClassifier
\* One connection whose first read is one whole line: a label part ("Total" in
\* some case, or none), gaps, a colon or none, and a body of digits, points,
\* signs, letters and blanks.
Prefixes == {<<>>, <<84, 111, 116, 97, 108>>, <<116, 79, 84, 65, 76>>, <<84, 111, 116, 97>>}
Gaps == {<<>>, <<32>>}
Colons == {<<>>, <<58>>}
BodyChars == {48, 49, 46, 45, 43, 120, 32}   \* "0", "1", ".", "-", "+", "x", " "

ClassifierLines ==
  {strip(p \o a \o c \o b \o body) :
     p \in Prefixes, a \in Gaps, c \in Colons, b \in Gaps,
     body \in SeqsUpTo(BodyChars, MaxBody)} \ {<<>>}

NextClassifier ==
  \/ \E port \in PortUniverse :
       ~is_connected(Mgr) /\ op.name = "__init__" /\ ToggleConnect(port, TRUE, FALSE, "ok")
  \/ \E line \in ClassifierLines :
       op.name = "toggle_connect" /\ PollRead(encode(line) \o <<NL>>)

SpecClassifier == Init /\ [][NextClassifier]_vars

\* ----------------------------------------------------------- SpecPlanets
\* The planet table edited cell by cell in its first MaxRows rows, and sent.
\* Cell texts: names "", "b", "Kepler-1649c"; dips "0.1", "2", "x"; orbits
\* "10.0", "0.0005"; transits "2.0", "0.0001"; phases "0", "-5", "7.9".
CellTexts ==
  <<{<<>>, <<98>>, <<75, 101, 112, 108, 101, 114, 45, 49, 54, 52, 57, 99>>},
    {<<48, 46, 49>>, <<50>>, <<120>>},
    {<<49, 48, 46, 48>>, <<48, 46, 48, 48, 48, 53>>},
    {<<50, 46, 48>>, <<48, 46, 48, 48, 48, 49>>},
    {<<48>>, <<45, 53>>, <<55, 46, 57>>}>>

NextPlanets ==
  \/ \E port \in PortUniverse :
       ~is_connected(Mgr) /\ ToggleConnect(port, TRUE, FALSE, "ok")
  \/ \E r \in 1..MaxRows, c \in 1..5 : \E text \in CellTexts[c] :
       r <= MAX_PLANETS /\ EditCell(r, c, text)
  \/ \E fail_at \in 0..(MaxRows + 1), io \in {"ok", "write", "flush"} : SendPlanets(fail_at, io)

SpecPlanets == Init /\ [][NextPlanets]_vars

\* ================================================================ claims
Connected == is_connected(Mgr)
Signals(evs) == {evs[i] : i \in 1..Len(evs)}

\* C1. Chunk-boundary independence: however the byte stream was split into
\* reads, the lines emitted by the successive polls, in order, are the lines
\* one read of the whole stream into an empty buffer emits.
C1_ChunkIndependence == lines = SplitLines(rx).emitted

\* A poll whose read began inside a two-byte character of a line begun by an
\* earlier read, and emitted that line reassembled ("\xa9" "1" "\n" -> "é1")
C1_Witness ==
  /\ op.name = "_poll_serial"
  /\ op.read = <<169, 49, NL>>
  /\ events = <<line_received(<<233, 49>>)>>
  /\ lines = <<<<233, 49>>>>

\* C2. A successful connect leaves the receive buffer empty and the poll
\* timer running.
ConnectSucceeded ==
  \/ op.name = "connect" /\ op.ret = "True"
  \/ op.name = "toggle_connect" /\ op.ret = "connected"

C2_ConnectResetsFramer == ConnectSucceeded => _buf = <<>> /\ poll_timer

\* C3. A send whose write or flush raises fails with the write error and
\* leaves the transport disconnected: no link held, the poll timer stopped.
C3_WriteErrorDisconnects ==
  op.name = "send_line" /\ op.raised # {} =>
    op.ret = WriteFailed /\ ~Connected /\ ~poll_timer

\* C4. A poll whose read raises while connected emits an error event, and when
\* it returns the transport is disconnected, the poll timer is stopped and a
\* Disconnected status event has been emitted; it returns normally.
C4_PollErrorDisconnects ==
  /\ op.name = "_poll_serial" =>
       op.ret \in {"return", "in_error_dialog", "return_after_error"}
  /\ op.name = "_poll_serial" /\ "read" \in op.raised =>
       op.pre /\ events = <<error_occurred>> /\ op.ret = "in_error_dialog"
  /\ op.name = "_poll_serial" /\ op.ret = "in_error_dialog" => dialogs > 0
  /\ op.name = "_poll_serial" /\ op.ret = "return_after_error" =>
       ~Connected /\ ~poll_timer /\ status_changed(FALSE) \in Signals(events)

\* The poll returned from its error branch and it was its own disconnect that
\* closed the link
C4_Witness ==
  op.name = "_poll_serial" /\ op.ret = "return_after_error" /\ op.pre /\ dialogs = 0

\* C5. send_line while disconnected fails with the not-connected error, writes
\* nothing and changes no state.
C5_SendWhileDisconnected ==
  [][op'.name = "send_line" /\ ~Connected =>
       /\ op'.ret = NotConnected
       /\ op'.written = <<>>
       /\ events' = <<>>
       /\ UNCHANGED <<_ser, _buf, poll_timer, x_times, y_vals, log, t0, seconds_window,
                      port_combo, dialogs>>]_vars

\* A send refused while a partial line is buffered and the window holds samples
C5_Witness ==
  op.name = "send_line" /\ ~op.pre /\ op.ret = NotConnected /\ _buf # <<>> /\ x_times # <<>>

\* C6. disconnect always returns normally with the timer stopped, no link held
\* and the state Disconnected, also when close() raises; called when already
\* disconnected it leaves the transport state as it was.
C6_DisconnectIdempotent ==
  [][op'.name = "disconnect" =>
       /\ op'.ret = "ok"
       /\ _ser' = None /\ ~poll_timer' /\ _buf' = _buf
       /\ (~Connected /\ ~poll_timer => UNCHANGED <<_ser, _buf, poll_timer>>)]_vars

\* disconnect called again after a connection was closed with a partial line
\* still buffered
C6_Witness == op.name = "disconnect" /\ ~op.pre /\ _ser = None /\ ~poll_timer /\ _buf # <<>>

\* C7. After disconnect the receive buffer is empty.
C7_DisconnectEmptiesBuffer ==
  \/ op.name = "disconnect"
  \/ op.name = "toggle_connect" /\ op.ret = "disconnected"
  \/ op.name = "_poll_serial" /\ op.ret = "return_after_error"
  => _buf = <<>>

\* C8. A connect whose open fails reports the failure and leaves the transport
\* disconnected with no link and no polling; the receive buffer, the sample
\* window, its epoch and the port list are as before.
ConnectFailed == op.name \in {"connect", "toggle_connect"} /\ "open" \in op.raised

C8_FailedConnect ==
  [][ConnectFailed' =>
       /\ op'.ret \in {"False", "connect_failed"}
       /\ Last(events') = status_changed(FALSE)
       /\ _ser' = None /\ ~poll_timer'
       /\ UNCHANGED <<_buf, x_times, y_vals, log, t0, seconds_window, port_combo>>]_vars

\* A failed connect with a partial line buffered and samples in the window
C8_Witness == ConnectFailed /\ _buf # <<>> /\ x_times # <<>> /\ _ser = None

\* C9. The connection state machine, as claimed: Connected is entered only by
\* a connect whose open succeeded, and left only by a disconnect request, a
\* poll's read error or a write error.
Entered == ~Connected /\ Connected'
Left == Connected /\ ~Connected'
ByDisconnectRequest ==
  \/ op'.name = "disconnect"
  \/ op'.name = "toggle_connect" /\ op'.ret = "disconnected"
ByPollError == op'.name = "_poll_serial" /\ op'.ret = "return_after_error"
ByWriteError == op'.name = "send_line" /\ op'.raised # {}
ByFailedReconnect == op'.name = "connect" /\ "open" \in op'.raised

C9_StateMachine_AsClaimed ==
  [][/\ Entered => ConnectSucceeded' /\ ~("open" \in op'.raised)
     /\ Left => ByDisconnectRequest \/ ByPollError \/ ByWriteError]_vars

\* C9, amended: Connected is also left by a connect made while connected whose
\* open fails (connect disconnects before it opens).
C9_StateMachine ==
  [][/\ Entered => ConnectSucceeded' /\ ~("open" \in op'.raised)
     /\ Left => \/ ByDisconnectRequest \/ ByPollError \/ ByWriteError
                \/ ByFailedReconnect]_vars

\* A connect made while connected has failed to open and left the transport
\* disconnected
C9_Witness == op.name = "connect" /\ op.pre /\ "open" \in op.raised /\ ~Connected

\* C10. The window never holds more than 1000 samples, and right after a poll
\* that appended a sample no retained timestamp is below the newest one minus
\* the retention.
Appended == op.name = "_poll_serial" /\ \E i \in 1..Len(events) : SampleOf(events[i].text) # NoSample

C10_WindowBounds ==
  /\ Len(x_times) <= WindowCap
  /\ Appended => \A i \in 1..Len(x_times) : x_times[i] >= Last(x_times) - seconds_window

\* A full window right after an append made when it was already full: the two
\* newest samples were appended at later clock values than the oldest
C10_Witness ==
  /\ Appended
  /\ Len(x_times) = WindowCap
  /\ Head(x_times) < x_times[WindowCap - 1]
  /\ x_times[WindowCap - 1] < Last(x_times)

\* C11. In the program, a change from Disconnected to Connected empties the
\* window and sets the epoch to the time of the connect in the same step; the
\* epoch changes in no other step; the window changes otherwise only in a poll
\* of a connected transport, whose newest sample is stamped with the time since
\* the epoch; so every retained timestamp lies between 0 and the time since
\* the epoch of the current (or most recent) connection.
C11_FreshEpoch ==
  [][/\ Entered => x_times' = <<>> /\ y_vals' = <<>> /\ t0' = now'
     /\ t0' # t0 => Entered
     /\ x_times' # x_times /\ ~Entered =>
          /\ Connected /\ Connected' /\ op'.name = "_poll_serial"
          /\ Last(x_times') = now' - t0'
     /\ \A i \in 1..Len(x_times') : x_times'[i] \in 0..(now' - t0')]_vars

\* A sample of a connection made after the clock had advanced: it is stamped 0,
\* the time since that connection's epoch
C11_Witness == Appended /\ Connected /\ t0 > 0 /\ x_times = <<now - t0>>

\* C12. Line classification, as claimed. A line that is wholly "Total" in any
\* case, optional whitespace, a colon, optional whitespace and an unsigned
\* decimal X appends the sample X; a line that is wholly a decimal X, signed or
\* not, appends the sample X; every other line is appended to the log verbatim
\* and appends no sample. Exactly one of the two happens.
UnsignedDecimal(t) ==
  /\ t # <<>>
  /\ \A i \in 1..Len(t) : IsDigit(t[i]) \/ t[i] = 46
  /\ Cardinality({i \in 1..Len(t) : t[i] = 46}) <= 1
  /\ IsDigit(Head(t)) /\ IsDigit(Last(t))

TotalForm(line) ==
  /\ Len(line) >= 5
  /\ \A i \in 1..5 : lower(line[i]) = <<116, 111, 116, 97, 108>>[i]
  /\ \E c \in 6..Len(line) : \E d \in (c + 1)..Len(line) :
       /\ \A i \in 6..(c - 1) : IsSpace(line[i])
       /\ line[c] = 58
       /\ \A i \in (c + 1)..(d - 1) : IsSpace(line[i])
       /\ UnsignedDecimal(Drop(line, d - 1))

TotalFormValue(line) ==
  LET d == CHOOSE i \in 1..Len(line) : /\ UnsignedDecimal(Drop(line, i - 1))
                                     /\ ~IsDigit(line[i - 1]) /\ line[i - 1] # 46
  IN PyFloat(Drop(line, d - 1))

WhollyDecimal(line) ==
  LET body == IF Head(line) \in {43, 45} THEN Tail(line) ELSE line
  IN /\ \A i \in 1..Len(body) : IsDigit(body[i]) \/ body[i] = 46
     /\ Cardinality({i \in 1..Len(body) : body[i] = 46}) <= 1
     /\ \E i \in 1..Len(body) : IsDigit(body[i])

Classified == op.name = "_poll_serial" /\ Len(events) = 1 /\ events[1].sig = "line_received"
IsSample(value) == x_times = <<now - t0>> /\ y_vals = <<value>> /\ log = <<>>
IsLogLine(line) == x_times = <<>> /\ y_vals = <<>> /\ log = <<line>>

C12_Classification ==
  Classified =>
    LET line == events[1].text
    IN IF TotalForm(line) THEN IsSample(TotalFormValue(line))
       ELSE IF WhollyDecimal(line) THEN IsSample(PyFloat(line))
       ELSE IsLogLine(line)

\* C13. Every planet command line that send_planets writes has five fields: a
\* name of at most 11 characters, a dip in [0,1], and orbitMs, transitMs and
\* phaseMs that are non-negative integers with transitMs < orbitMs.
RECURSIVE SplitOn(_, _)
SplitOn(s, sep) ==
  IF \A i \in 1..Len(s) : s[i] # sep THEN <<s>>
  ELSE LET p == CHOOSE i \in 1..Len(s) : s[i] = sep /\ \A j \in 1..(i - 1) : s[j] # sep
       IN <<SubSeq(s, 1, p - 1)>> \o SplitOn(Drop(s, p), sep)

IsNatText(t) == t # <<>> /\ \A i \in 1..Len(t) : IsDigit(t[i])

PlanetLineOK(line) ==
  LET f == SplitOn(line, 44)
  IN /\ Len(f) = 5
     /\ Len(f[1]) <= 11
     /\ UnsignedDecimal(f[2]) /\ Leq(PyFloat(f[2]), <<1, 0>>)
     /\ IsNatText(f[3]) /\ IsNatText(f[4]) /\ IsNatText(f[5])
     /\ DigitsVal(f[4]) < DigitsVal(f[3])

IsPlanetLine(line) == line # <<>> /\ SubSeq(line, 1, Len(SETNUM)) # SETNUM

C13_PlanetCommands ==
  op.name = "send_planets" =>
    LET sent == SplitOn(op.written, NL)
    IN \A i \in 1..Len(sent) : IsPlanetLine(sent[i]) => PlanetLineOK(sent[i])

\* C14. Time-based eviction is exact: a poll that appends one sample to a
\* window below the count cap leaves exactly the earlier samples and the new
\* one whose timestamps are not below the newest timestamp minus the
\* retention, in order, with their values; a sample at the cutoff stays. (The
\* clock stands still in the step of a poll.)
AppendedOne == op.name = "_poll_serial" /\ Len(events) = 1 /\ Appended

C14_ExactEviction ==
  [][AppendedOne' /\ now' = now /\ Len(x_times) < WindowCap =>
       LET newest == now' - t0'
           kept(t) == t >= newest - seconds_window'
           all_x == Append(x_times, newest)
           all_y == Append(y_vals, SampleOf(events'[1].text))
       IN /\ x_times' = SelectSeq(all_x, kept)
          /\ y_vals' = Drop(all_y, Len(all_y) - Len(x_times'))]_vars

\* Right after an append the oldest retained sample sits exactly at the cutoff
\* (retention 5: appends at 0, 5 and 10 seconds leave 5 and 10)
C14_Witness ==
  /\ AppendedOne
  /\ Len(x_times) >= 2
  /\ Head(x_times) > 0
  /\ Head(x_times) = Last(x_times) - seconds_window

\* C15. Eviction is idempotent: right after an append, running the trimming
\* loop again with the same retention and the same newest timestamp removes
\* nothing; and for the cutoff an append at the present instant would use, on
\* any reachable window, trimming twice leaves what trimming once leaves.
NextCutoff == (now - t0) - seconds_window

C15_EvictionIdempotent ==
  /\ Appended => Trim(Win, Last(x_times) - seconds_window) = Win
  /\ Trim(Trim(Win, NextCutoff), NextCutoff) = Trim(Win, NextCutoff)

\* A window of which the trimming loop would now remove two samples or more and
\* keep some
C15_Witness ==
  /\ Len(Trim(Win, NextCutoff).x_times) <= Len(x_times) - 2
  /\ Trim(Win, NextCutoff).x_times # <<>>

\* C16. set_window_seconds changes the configured retention and nothing else:
\* the samples, the epoch and the transport are as before; the trimming of the
\* next append (and of every append) uses the retention configured at the time
\* of that append.
C16_RetentionChange ==
  [][/\ seconds_window' # seconds_window =>
          /\ op'.name = "set_window_seconds"
          /\ seconds_window' \in WindowChoices
          /\ UNCHANGED <<x_times, y_vals, log, t0, _ser, _buf, poll_timer, port_combo, table>>
     /\ AppendedOne' /\ now' = now =>
          LET newest == now' - t0'
              kept(t) == t >= newest - seconds_window
          IN /\ seconds_window' = seconds_window
             /\ x_times' = SelectSeq(deque_append(x_times, newest, WindowCap), kept)]_vars

\* The retention has just been lowered and the window still holds samples
\* older than the new retention allows: they stay until the next append
C16_Witness ==
  /\ op.name = "set_window_seconds"
  /\ x_times # <<>>
  /\ Head(x_times) < Last(x_times) - seconds_window

\* C17. Every change of the connection state happens in a step that emits a
\* status event, the last of which carries the new state; and the flag of the
\* most recently emitted status event, which on_status_changed keeps as the
\* text of the connect button, equals the transport's connection state.
LastStatus(evs) ==
  LET idx == {i \in 1..Len(evs) : evs[i].sig = "status_changed"}
  IN evs[Max(idx)].connected

C17_StatusEvents ==
  /\ [](connect_btn = "Disconnect" <=> Connected)
  /\ [][Connected' # Connected =>
          /\ status_changed(Connected') \in Signals(events')
          /\ LastStatus(events') = Connected']_vars

\* A connect made while connected has succeeded: it emitted the status False
\* of its disconnect and then True, and the button shows the latter
C17_Witness ==
  /\ op.name = "connect" /\ op.pre /\ Connected
  /\ events = <<status_changed(FALSE), status_changed(TRUE)>>
  /\ connect_btn = "Disconnect"

\* C18. The count cap is enforced oldest-first whatever the retention: an
\* append to a window that holds 1000 samples, all within the retention, drops
\* exactly the oldest sample. The timestamps and the values always have the
\* same length, and they stay index-aligned: every append adds one timestamp
\* and one value at the tail and removes the same number of both from the
\* head, and a connect empties both.
C18_CountCap ==
  /\ [](Len(x_times) = Len(y_vals))
  /\ [][/\ AppendedOne' /\ now' = now =>
            LET newest == now' - t0'
                value == SampleOf(events'[1].text)
                k == Len(x_times) + 1 - Len(x_times')
            IN /\ k \in 0..Len(x_times)
               /\ x_times' = Drop(Append(x_times, newest), k)
               /\ y_vals' = Drop(Append(y_vals, value), k)
               /\ (Len(x_times) = WindowCap /\ Head(x_times) >= newest - seconds_window) => k = 1
        /\ (x_times' # x_times \/ y_vals' # y_vals) =>
             \/ op'.name = "_poll_serial"
             \/ op'.name = "toggle_connect" /\ x_times' = <<>> /\ y_vals' = <<>>]_vars

\* A window at the cap whose samples were all within the retention has taken
\* one more sample: the oldest is gone, the newest value sits with the newest
\* timestamp
C18_Witness ==
  /\ AppendedOne
  /\ Len(x_times) = WindowCap
  /\ x_times[WindowCap - 2] < x_times[WindowCap - 1]
  /\ x_times[WindowCap - 1] < x_times[WindowCap]
  /\ Head(x_times) >= Last(x_times) - seconds_window
  /\ y_vals[WindowCap] = SampleOf(events[1].text)
  /\ y_vals[WindowCap] # y_vals[WindowCap - 1]

\* C19. The receive buffer never holds a newline byte. A poll leaves in it
\* exactly the bytes that follow the last newline of what it held and what was
\* read, and emits, in order, every line those bytes completed, stripped,
\* except the ones that strip to nothing.
NonEmpty(line) == line # <<>>

C19_RawBuffer ==
  /\ [](~HasNL(_buf))
  /\ [][op'.name = "_poll_serial" /\ rx' = rx \o op'.read =>
          LET parts == SplitOn(_buf \o op'.read, NL)
              complete == [i \in 1..(Len(parts) - 1) |-> strip(decode(parts[i]))]
          IN /\ _buf' = Last(parts)
             /\ [i \in 1..Len(events') |-> events'[i].text] = SelectSeq(complete, NonEmpty)
             /\ \A i \in 1..Len(events') : events'[i].sig = "line_received"]_vars

\* One poll read two newlines and a byte after them: the line before the
\* first was dispatched, the empty one between them discarded, the byte kept
C19_Witness ==
  /\ op.name = "_poll_serial"
  /\ Len(SplitOn(op.read, NL)) = 3
  /\ Len(events) = 1
  /\ _buf # <<>>

\* C20. A poll that reads zero bytes, and a poll made while disconnected,
\* returns having emitted nothing and changed nothing: the connection state,
\* the receive buffer, the poll timer, the window and its epoch, and the log
\* are as before.
C20_PollNoOp ==
  [][op'.name = "_poll_serial" /\ op'.ret = "return" /\ op'.read = <<>> /\ now' = now =>
       /\ events' = <<>>
       /\ UNCHANGED <<_ser, _buf, poll_timer, x_times, y_vals, log, t0, seconds_window,
                      port_combo, dialogs, table, connect_btn>>]_vars

\* A poll of a connected transport has read zero bytes while a partial line
\* was buffered: the line is still there and the transport still connected
C20_Witness ==
  /\ op.name = "_poll_serial" /\ op.ret = "return" /\ op.pre /\ op.read = <<>>
  /\ Connected /\ poll_timer
  /\ _buf # <<>>

\* C21. The timestamps in the window are non-decreasing from head to tail in
\* every reachable state, whatever connects, disconnects, polls, retention
\* changes and clock advances came before.
C21_MonotoneTimestamps ==
  \A i \in 1..(Len(x_times) - 1) : x_times[i] <= x_times[i + 1]

\* A connection made after the clock had advanced holds samples of two
\* different clock values, stamped from its own epoch
C21_Witness ==
  /\ t0 > 0
  /\ Connected
  /\ Len(x_times) >= 2
  /\ Head(x_times) = 0
  /\ Last(x_times) = now - t0
  /\ Last(x_times) > 0

\* C22. After a poll whose read raised, no further read of the link is
\* attempted until a later connect succeeds, and one error event is emitted for
\* the failure: while a failed poll has not yet reached its disconnect (its
\* "Serial Error" box is open) no poll reads the link or emits another error
\* event, and once it has disconnected a poll returns without reading.
ReadAttempted == op'.name = "_poll_serial" /\ op'.pre /\ op'.ret \in {"return", "in_error_dialog"}

C23_TimerIffHandle ==
  /\ [](poll_timer <=> _ser # None)
  /\ [](_ser \in {None} \cup PortUniverse)
  /\ [][op'.name = "connect" /\ Connected =>
          /\ Head(events') = status_changed(FALSE)
          /\ poll_timer' <=> op'.ret = "True"]_vars

\* A failed connect made while a link was held: the old link is gone and the
\* timer stopped
C23_Witness ==
  /\ op.name = "connect" /\ op.pre /\ op.ret = "False"
  /\ _ser = None /\ ~poll_timer

====
